---- MODULE Spec2Model ----
(***************************************************************************)
(* A model of the curerr library (src/src/lib.rs): the two-level error     *)
(* taxonomy CursedError x CursedErrorType, its renderings, the conversion  *)
(* from std::io::ErrorKind, and the CursedErrorHandle wrapper with its     *)
(* accessors and its Display / Debug implementations.                      *)
(*                                                                         *)
(* Strings are TLA+ strings; a character is a string of length one.        *)
(* An enum value with a payload is the tuple <<variant, payload>>, a unit  *)
(* variant the tuple <<variant>>.                                          *)
(***************************************************************************)
EXTENDS Integers, Sequences, FiniteSets, TLC

VARIABLES
    arg,      \* SpecPure: the call [fn, val] to make, val the argument tuple
    ret,      \* the last call that returned: [op, val, again], val its value
    args,     \* Spec: the (error, reason) pair the caller builds handles from
    handles,  \* Spec: the two fields of each handle built so far
    shown     \* Spec: per format, the first string rendered, if any

vars == <<arg, ret, args, handles, shown>>

\* The longest reason, the documentation's aside, that SpecPure renders.
MaxLen == 2
\* The longest reason, the documentation's aside, that Spec's handles hold.
MaxHeld == 1

\* Nothing has been called, or returned, yet.
NoCall == [fn |-> "none", val |-> <<>>]
NoRet == [op |-> "none", val |-> <<>>, again |-> FALSE]
\* No handle has been built.
NoHandles == [h \in {} |-> NoRet]
CompileError == <<"CompileError">>

(***************************************************************************)
(* enum CursedErrorType                                                    *)
(***************************************************************************)
CursedErrorType ==
    { "NotImplemented", "AlreadyExists", "AccessDenied", "NotSupported",
      "Interrupted", "NotEnough", "Timedout", "Overflow", "NotFound",
      "Refused", "Invalid", "Aborted", "Reset", "Parse" }

\* A slip in the phrase table: the space of "timed out" is lost.
to_str_joined(self) ==
    CASE self = "NotImplemented" -> "not implemented"
      [] self = "AlreadyExists"  -> "already exists"
      [] self = "AccessDenied"   -> "access denied"
      [] self = "NotSupported"   -> "not supported"
      [] self = "Interrupted"    -> "interrupted"
      [] self = "NotEnough"      -> "not enough"
      [] self = "Timedout"       -> "timedout"
      [] self = "NotFound"       -> "not found"
      [] self = "Overflow"       -> "overflow"
      [] self = "Refused"        -> "refused"
      [] self = "Invalid"        -> "invalid"
      [] self = "Aborted"        -> "aborted"
      [] self = "Reset"          -> "reset"
      [] self = "Parse"          -> "parse"

\* CursedErrorType::to_str: an exhaustive match, one arm per variant.
to_str(self) ==
    CASE self = "NotImplemented" -> "not implemented"
      [] self = "AlreadyExists"  -> "already exists"
      [] self = "AccessDenied"   -> "access denied"
      [] self = "NotSupported"   -> "not supported"
      [] self = "Interrupted"    -> "interrupted"
      [] self = "NotEnough"      -> "not enough"
      [] self = "Timedout"       -> "timed out"
      [] self = "NotFound"       -> "not found"
      [] self = "Overflow"       -> "overflow"
      [] self = "Refused"        -> "refused"
      [] self = "Invalid"        -> "invalid"
      [] self = "Aborted"        -> "aborted"
      [] self = "Reset"          -> "reset"
      [] self = "Parse"          -> "parse"

(***************************************************************************)
(* enum CursedError                                                        *)
(***************************************************************************)
Connection(err) == <<"Connection", err>>
Address(err)    == <<"Address", err>>
Memory(err)     == <<"Memory", err>>
Buffer(err)     == <<"Buffer", err>>
Envvar(err)     == <<"Envvar", err>>
Other(err)      == <<"Other", err>>
Input(err)      == <<"Input", err>>
File(err)       == <<"File", err>>
Path(err)       == <<"Path", err>>
Data(err)       == <<"Data", err>>
Call(err)       == <<"Call", err>>
NoError         == <<"NoError">>
Unknown         == <<"Unknown">>

\* The names of the variants that carry a CursedErrorType.
PayloadVariants ==
    { "Connection", "Address", "Memory", "Buffer", "Envvar", "Other",
      "Input", "File", "Path", "Data", "Call" }

\* Every value of the enum.
CursedError ==
    { <<v, err>> : v \in PayloadVariants, err \in CursedErrorType }
        \cup { NoError, Unknown }

(***************************************************************************)
(* format!(template, pieces...): the template is copied character by       *)
(* character and each "{}" is replaced by the next argument, written with  *)
(* its Display implementation (for a string: the string itself).           *)
(***************************************************************************)
RECURSIVE FormatFrom(_, _, _, _)
FormatFrom(template, i, pieces, j) ==
    IF i > Len(template) THEN ""
    ELSE IF i < Len(template) /\ SubSeq(template, i, i + 1) = "{}"
         THEN pieces[j] \o FormatFrom(template, i + 2, pieces, j + 1)
         ELSE SubSeq(template, i, i) \o FormatFrom(template, i + 1, pieces, j)

format(template, pieces) == FormatFrom(template, 1, pieces, 1)

\* A slip in the match: the Memory arm keeps the text of the arm it was
\* copied from.
to_string_pasted(self) ==
    CASE self[1] = "Connection" -> format("connection {}", <<to_str(self[2])>>)
      [] self[1] = "Address"    -> format("address {}", <<to_str(self[2])>>)
      [] self[1] = "Buffer"     -> format("buffer {}", <<to_str(self[2])>>)
      [] self[1] = "Envvar"     -> format("envvar {}", <<to_str(self[2])>>)
      [] self[1] = "Memory"     -> format("buffer {}", <<to_str(self[2])>>)
      [] self[1] = "Input"      -> format("input {}", <<to_str(self[2])>>)
      [] self[1] = "File"       -> format("file {}", <<to_str(self[2])>>)
      [] self[1] = "Path"       -> format("path {}", <<to_str(self[2])>>)
      [] self[1] = "Call"       -> format("call {}", <<to_str(self[2])>>)
      [] self[1] = "Data"       -> format("data {}", <<to_str(self[2])>>)
      [] self[1] = "Other"      -> to_str(self[2])
      [] self = NoError         -> "no error"
      [] self = Unknown         -> "unknown"

\* A slip in the match: Other gets a domain word like its neighbours.
to_string_prefixed(self) ==
    CASE self[1] = "Connection" -> format("connection {}", <<to_str(self[2])>>)
      [] self[1] = "Address"    -> format("address {}", <<to_str(self[2])>>)
      [] self[1] = "Buffer"     -> format("buffer {}", <<to_str(self[2])>>)
      [] self[1] = "Envvar"     -> format("envvar {}", <<to_str(self[2])>>)
      [] self[1] = "Memory"     -> format("memory {}", <<to_str(self[2])>>)
      [] self[1] = "Input"      -> format("input {}", <<to_str(self[2])>>)
      [] self[1] = "File"       -> format("file {}", <<to_str(self[2])>>)
      [] self[1] = "Path"       -> format("path {}", <<to_str(self[2])>>)
      [] self[1] = "Call"       -> format("call {}", <<to_str(self[2])>>)
      [] self[1] = "Data"       -> format("data {}", <<to_str(self[2])>>)
      [] self[1] = "Other"      -> format("other {}", <<to_str(self[2])>>)
      [] self = NoError         -> "no error"
      [] self = Unknown         -> "unknown"

\* impl ToString for CursedError
to_string(self) ==
    CASE self[1] = "Connection" -> format("connection {}", <<to_str(self[2])>>)
      [] self[1] = "Address"    -> format("address {}", <<to_str(self[2])>>)
      [] self[1] = "Buffer"     -> format("buffer {}", <<to_str(self[2])>>)
      [] self[1] = "Envvar"     -> format("envvar {}", <<to_str(self[2])>>)
      [] self[1] = "Memory"     -> format("memory {}", <<to_str(self[2])>>)
      [] self[1] = "Input"      -> format("input {}", <<to_str(self[2])>>)
      [] self[1] = "File"       -> format("file {}", <<to_str(self[2])>>)
      [] self[1] = "Path"       -> format("path {}", <<to_str(self[2])>>)
      [] self[1] = "Call"       -> format("call {}", <<to_str(self[2])>>)
      [] self[1] = "Data"       -> format("data {}", <<to_str(self[2])>>)
      [] self[1] = "Other"      -> to_str(self[2])
      [] self = NoError         -> "no error"
      [] self = Unknown         -> "unknown"

(***************************************************************************)
(* std::io::ErrorKind, the argument of the conversion.  The enum is        *)
(* non-exhaustive: the fifteen kinds the match names, and the others of    *)
(* the standard library, which all take the wildcard arm.                  *)
(***************************************************************************)
NamedErrorKind ==
    { "NotFound", "PermissionDenied", "ConnectionRefused", "ConnectionReset",
      "ConnectionAborted", "NotConnected", "AddrInUse", "AddrNotAvailable",
      "AlreadyExists", "InvalidInput", "InvalidData", "TimedOut",
      "Interrupted", "Unsupported", "OutOfMemory" }

ErrorKind ==
    NamedErrorKind \cup
    { "HostUnreachable", "NetworkUnreachable", "NetworkDown", "BrokenPipe",
      "WouldBlock", "NotADirectory", "IsADirectory", "DirectoryNotEmpty",
      "ReadOnlyFilesystem", "StaleNetworkFileHandle", "WriteZero",
      "StorageFull", "NotSeekable", "QuotaExceeded", "FileTooLarge",
      "ResourceBusy", "ExecutableFileBusy", "Deadlock", "CrossesDevices",
      "TooManyLinks", "InvalidFilename", "ArgumentListTooLong",
      "UnexpectedEof", "Other", "Uncategorized" }

\* A slip in the match: NotConnected is given the kind its name suggests.
from_not_found(error) ==
    CASE error = "NotFound"          -> Other("NotFound")
      [] error = "PermissionDenied"  -> Other("AccessDenied")
      [] error = "ConnectionRefused" -> Connection("Refused")
      [] error = "ConnectionReset"   -> Connection("Reset")
      [] error = "ConnectionAborted" -> Connection("Aborted")
      [] error = "NotConnected"      -> Connection("NotFound")
      [] error = "AddrInUse"         -> Address("AlreadyExists")
      [] error = "AddrNotAvailable"  -> Address("NotSupported")
      [] error = "AlreadyExists"     -> Other("AlreadyExists")
      [] error = "InvalidInput"      -> Input("Invalid")
      [] error = "InvalidData"       -> Data("Invalid")
      [] error = "TimedOut"          -> Call("Timedout")
      [] error = "Interrupted"       -> Other("Interrupted")
      [] error = "Unsupported"       -> Other("NotSupported")
      [] error = "OutOfMemory"       -> Memory("NotEnough")
      [] OTHER                       -> Unknown

\* A slip in the match: the wildcard arm returns the other sentinel.
from_no_error(error) ==
    CASE error = "NotFound"          -> Other("NotFound")
      [] error = "PermissionDenied"  -> Other("AccessDenied")
      [] error = "ConnectionRefused" -> Connection("Refused")
      [] error = "ConnectionReset"   -> Connection("Reset")
      [] error = "ConnectionAborted" -> Connection("Aborted")
      [] error = "NotConnected"      -> Connection("NotImplemented")
      [] error = "AddrInUse"         -> Address("AlreadyExists")
      [] error = "AddrNotAvailable"  -> Address("NotSupported")
      [] error = "AlreadyExists"     -> Other("AlreadyExists")
      [] error = "InvalidInput"      -> Input("Invalid")
      [] error = "InvalidData"       -> Data("Invalid")
      [] error = "TimedOut"          -> Call("Timedout")
      [] error = "Interrupted"       -> Other("Interrupted")
      [] error = "Unsupported"       -> Other("NotSupported")
      [] error = "OutOfMemory"       -> Memory("NotEnough")
      [] OTHER                       -> NoError

\* impl From<ErrorKind> for CursedError
from(error) ==
    CASE error = "NotFound"          -> Other("NotFound")
      [] error = "PermissionDenied"  -> Other("AccessDenied")
      [] error = "ConnectionRefused" -> Connection("Refused")
      [] error = "ConnectionReset"   -> Connection("Reset")
      [] error = "ConnectionAborted" -> Connection("Aborted")
      [] error = "NotConnected"      -> Connection("NotImplemented")
      [] error = "AddrInUse"         -> Address("AlreadyExists")
      [] error = "AddrNotAvailable"  -> Address("NotSupported")
      [] error = "AlreadyExists"     -> Other("AlreadyExists")
      [] error = "InvalidInput"      -> Input("Invalid")
      [] error = "InvalidData"       -> Data("Invalid")
      [] error = "TimedOut"          -> Call("Timedout")
      [] error = "Interrupted"       -> Other("Interrupted")
      [] error = "Unsupported"       -> Other("NotSupported")
      [] error = "OutOfMemory"       -> Memory("NotEnough")
      [] OTHER                       -> Unknown

\* A path expression CursedError::variant(CursedErrorType::err) names a
\* value only when the enum declares the variant; otherwise the program that
\* holds it does not compile.
VariantExpr(variant, err) ==
    IF variant \in PayloadVariants /\ err \in CursedErrorType
    THEN <<variant, err>>
    ELSE CompileError

\* The constructions the two documentation examples make.
DocExamples ==
    { [variant |-> "Argument", err |-> "Invalid", reason |-> "0 division!!!"],
      [variant |-> "Path", err |-> "Invalid", reason |-> "path is invalid"] }

(***************************************************************************)
(* struct CursedErrorHandle { error, reason }                              *)
(***************************************************************************)
new(error, reason) == [error |-> error, reason |-> reason]

get_error(self) == self.error

get_reason(self) == self.reason

\* <char as Debug> inside a string: char::escape_debug with the double
\* quote escaped and the single quote left alone.
escape_debug(c) ==
    CASE c = "\t" -> "\\t"
      [] c = "\r" -> "\\r"
      [] c = "\n" -> "\\n"
      [] c = "\\" -> "\\\\"
      [] c = "\"" -> "\\\""
      [] OTHER    -> c

RECURSIVE EscapeFrom(_, _)
EscapeFrom(s, i) ==
    IF i > Len(s) THEN "" ELSE escape_debug(SubSeq(s, i, i)) \o EscapeFrom(s, i + 1)

\* <String as Debug>::fmt: the escaped characters between double quotes.
str_Debug(s) == "\"" \o EscapeFrom(s, 1) \o "\""

\* Formatter::debug_tuple(name).field(value).finish(), the field already
\* written with its Debug implementation; `alternate` is the {:#?} flag,
\* under which the field goes on a line of its own, indented by four spaces
\* and followed by a comma.
DebugTuple(name, field, alternate) ==
    IF alternate
    THEN name \o "(\n" \o "    " \o field \o ",\n" \o ")"
    ELSE name \o "(" \o field \o ")"

\* A slip in the format string: the reason is written with {:?}.
Display_fmt_escaped(self) ==
    format("{} error: {}", <<to_string(self.error), str_Debug(self.reason)>>)

\* impl Display for CursedErrorHandle
Display_fmt(self) ==
    format("{} error: \"{}\"", <<to_string(self.error), self.reason>>)

\* A slip in the builder: the tuple is named but its field is never added.
Debug_fmt_no_field(self, alternate) == to_string(self.error)

\* impl Debug for CursedErrorHandle
Debug_fmt(self, alternate) ==
    DebugTuple(to_string(self.error), str_Debug(self.reason), alternate)

(***************************************************************************)
(* The inputs.                                                             *)
(***************************************************************************)
\* The characters reasons are built from: a letter, the double quote, the
\* backslash and the line feed.
Alphabet == { "a", "\"", "\\", "\n" }

RECURSIVE StringsOfLen(_)
StringsOfLen(n) ==
    IF n = 0 THEN { "" }
    ELSE { s \o c : s \in StringsOfLen(n - 1), c \in Alphabet }

\* Every string of at most n characters, and the reasons of the
\* documentation examples.
Reasons(n) ==
    UNION { StringsOfLen(k) : k \in 0..n } \cup { e.reason : e \in DocExamples }

HandleIds == { "h1", "h2" }

Formats == { "Display", "Debug", "DebugAlt" }

(***************************************************************************)
(* Spec: handles are built from one (error, reason) pair and then read and *)
(* rendered in any order.  shown[f] keeps the first string rendered in     *)
(* format f; a rendering returns its string and whether the format had     *)
(* been rendered before.                                                   *)
(***************************************************************************)
Init ==
    /\ args \in [error : CursedError, reason : Reasons(MaxHeld)]
    /\ handles = NoHandles
    /\ shown = [f \in Formats |-> <<>>]
    /\ ret = NoRet
    /\ arg = NoCall

New(h) ==
    /\ h \notin DOMAIN handles
    /\ handles' = [x \in DOMAIN handles \cup {h} |->
                      IF x = h THEN new(args.error, args.reason) ELSE handles[x]]
    /\ UNCHANGED <<arg, ret, args, shown>>

GetError(h) ==
    /\ h \in DOMAIN handles
    /\ ret' = [op |-> "get_error", val |-> get_error(handles[h]), again |-> FALSE]
    /\ UNCHANGED <<arg, args, handles, shown>>

\* A getter that moves the string out: std::mem::take leaves it empty.
GetReasonTaking(h) ==
    /\ h \in DOMAIN handles
    /\ ret' = [op |-> "get_reason", val |-> get_reason(handles[h]), again |-> FALSE]
    /\ handles' = [handles EXCEPT ![h].reason = ""]
    /\ UNCHANGED <<arg, args, shown>>

GetReason(h) ==
    /\ h \in DOMAIN handles
    /\ ret' = [op |-> "get_reason", val |-> get_reason(handles[h]), again |-> FALSE]
    /\ UNCHANGED <<arg, args, handles, shown>>

\* The rendering `val` in format f: returned, and kept when it is the first.
Render(f, val) ==
    /\ ret' = [op |-> f, val |-> val, again |-> shown[f] # <<>>]
    /\ shown' = IF shown[f] = <<>> THEN [shown EXCEPT ![f] = <<val>>] ELSE shown

\* A rendering that consumes what it renders: the reason is left empty.
DisplayTaking(h) ==
    /\ h \in DOMAIN handles
    /\ Render("Display", Display_fmt(handles[h]))
    /\ handles' = [handles EXCEPT ![h].reason = ""]
    /\ UNCHANGED <<arg, args>>

\* format!("{}", handle)
Display(h) ==
    /\ h \in DOMAIN handles
    /\ Render("Display", Display_fmt(handles[h]))
    /\ UNCHANGED <<arg, args, handles>>

\* format!("{:?}", handle) and, with alternate, format!("{:#?}", handle)
Debug(h, alternate) ==
    /\ h \in DOMAIN handles
    /\ Render(IF alternate THEN "DebugAlt" ELSE "Debug",
              Debug_fmt(handles[h], alternate))
    /\ UNCHANGED <<arg, args, handles>>

Next ==
    \/ \E h \in HandleIds : New(h)
    \/ \E h \in HandleIds : GetError(h)
    \/ \E h \in HandleIds : GetReason(h)
    \/ \E h \in HandleIds : Display(h)
    \/ \E h \in HandleIds, alternate \in BOOLEAN : Debug(h, alternate)

Spec == Init /\ [][Next]_vars

(***************************************************************************)
(* SpecPure: one call of a function of the library on one argument tuple.  *)
(***************************************************************************)
PureCalls ==
    { [fn |-> "to_str", val |-> <<k>>] : k \in CursedErrorType }
        \cup { [fn |-> "to_string", val |-> c] : c \in CursedError }
        \cup { [fn |-> "from", val |-> <<k>>] : k \in ErrorKind }
        \cup { [fn |-> "variant", val |-> <<v, k>>] :
                 v \in PayloadVariants \cup { e.variant : e \in DocExamples },
                 k \in CursedErrorType }
        \cup { [fn |-> f, val |-> <<c, r>>] :
                 f \in Formats, c \in CursedError, r \in Reasons(MaxLen) }

InitPure ==
    /\ arg \in PureCalls
    /\ ret = NoRet
    /\ args = [error |-> NoError, reason |-> ""]
    /\ handles = NoHandles
    /\ shown = [f \in Formats |-> <<>>]

CallToStr ==
    /\ arg.fn = "to_str" /\ ret.op = "none"
    /\ ret' = [op |-> "to_str", val |-> to_str(arg.val[1]), again |-> FALSE]
    /\ UNCHANGED <<arg, args, handles, shown>>

CallToString ==
    /\ arg.fn = "to_string" /\ ret.op = "none"
    /\ ret' = [op |-> "to_string", val |-> to_string(arg.val), again |-> FALSE]
    /\ UNCHANGED <<arg, args, handles, shown>>

CallFrom ==
    /\ arg.fn = "from" /\ ret.op = "none"
    /\ ret' = [op |-> "from", val |-> from(arg.val[1]), again |-> FALSE]
    /\ UNCHANGED <<arg, args, handles, shown>>

CallVariant ==
    /\ arg.fn = "variant" /\ ret.op = "none"
    /\ ret' = [op |-> "variant", val |-> VariantExpr(arg.val[1], arg.val[2]),
               again |-> FALSE]
    /\ UNCHANGED <<arg, args, handles, shown>>

\* format!("{}", CursedErrorHandle::new(error, reason))
CallDisplay ==
    /\ arg.fn = "Display" /\ ret.op = "none"
    /\ ret' = [op |-> "Display", val |-> Display_fmt(new(arg.val[1], arg.val[2])),
               again |-> FALSE]
    /\ UNCHANGED <<arg, args, handles, shown>>

\* format!("{:?}", ...) and format!("{:#?}", ...) of such a handle
CallDebug ==
    /\ arg.fn \in { "Debug", "DebugAlt" } /\ ret.op = "none"
    /\ ret' = [op |-> arg.fn,
               val |-> Debug_fmt(new(arg.val[1], arg.val[2]), arg.fn = "DebugAlt"),
               again |-> FALSE]
    /\ UNCHANGED <<arg, args, handles, shown>>

NextPure ==
    CallToStr \/ CallToString \/ CallFrom \/ CallVariant \/ CallDisplay \/ CallDebug

SpecPure == InitPure /\ [][NextPure]_vars

(***************************************************************************)
(* What the properties are stated with.                                    *)
(***************************************************************************)
\* sub occurs in s as a run of consecutive characters.
Contains(s, sub) ==
    \E i \in 0..(Len(s) - Len(sub)) : SubSeq(s, i + 1, i + Len(sub)) = sub

Chars(s) == { SubSeq(s, i, i) : i \in 1..Len(s) }

UpperCase == "ABCDEFGHIJKLMNOPQRSTUVWXYZ"
LowerCase == "abcdefghijklmnopqrstuvwxyz"

LowerChar(c) ==
    IF c \in Chars(UpperCase)
    THEN LET i == CHOOSE k \in 1..Len(UpperCase) : SubSeq(UpperCase, k, k) = c
         IN SubSeq(LowerCase, i, i)
    ELSE c

RECURSIVE LowerFrom(_, _)
LowerFrom(s, i) ==
    IF i > Len(s) THEN "" ELSE LowerChar(SubSeq(s, i, i)) \o LowerFrom(s, i + 1)

Lower(s) == LowerFrom(s, 1)

\* The phrase table of the kinds, as the specification gives it.
Phrases ==
    { <<"NotImplemented", "not implemented">>, <<"AlreadyExists", "already exists">>,
      <<"AccessDenied", "access denied">>, <<"NotSupported", "not supported">>,
      <<"Interrupted", "interrupted">>, <<"NotEnough", "not enough">>,
      <<"Timedout", "timed out">>, <<"NotFound", "not found">>,
      <<"Overflow", "overflow">>, <<"Refused", "refused">>,
      <<"Invalid", "invalid">>, <<"Aborted", "aborted">>,
      <<"Reset", "reset">>, <<"Parse", "parse">> }

\* Lowercase words separated by single spaces, nothing before or after.
IsPhrase(s) ==
    /\ Len(s) > 0
    /\ Chars(s) \subseteq Chars(LowerCase) \cup { " " }
    /\ SubSeq(s, 1, 1) # " " /\ SubSeq(s, Len(s), Len(s)) # " "
    /\ ~Contains(s, "  ")

\* The mapping table of the platform kinds, as the specification gives it:
\* platform kind, domain, kind.
Mapping ==
    { <<"NotFound", "Other", "NotFound">>,
      <<"PermissionDenied", "Other", "AccessDenied">>,
      <<"ConnectionRefused", "Connection", "Refused">>,
      <<"ConnectionReset", "Connection", "Reset">>,
      <<"ConnectionAborted", "Connection", "Aborted">>,
      <<"NotConnected", "Connection", "NotImplemented">>,
      <<"AddrInUse", "Address", "AlreadyExists">>,
      <<"AddrNotAvailable", "Address", "NotSupported">>,
      <<"AlreadyExists", "Other", "AlreadyExists">>,
      <<"InvalidInput", "Input", "Invalid">>,
      <<"InvalidData", "Data", "Invalid">>,
      <<"TimedOut", "Call", "Timedout">>,
      <<"Interrupted", "Other", "Interrupted">>,
      <<"Unsupported", "Other", "NotSupported">>,
      <<"OutOfMemory", "Memory", "NotEnough">> }

\* The characters Debug writes as an escape sequence.
Escaped == { "\"", "\\", "\n", "\r", "\t" }

(***************************************************************************)
(* The properties.                                                         *)
(***************************************************************************)

\* C1: the Display rendering of CursedErrorHandle::new(c, r) is c.to_string(),
\* then the text ' error: "', then r as it is, then a closing '"', for every
\* category c and every reason r, the empty one and those with quote marks or
\* backslashes included; Path(Invalid) with the reason "path is invalid"
\* renders as 'path invalid error: "path is invalid"'.
C1_DisplayExact ==
    ret.op = "Display" =>
        /\ ret.val = to_string(arg.val[1]) \o " error: \"" \o arg.val[2] \o "\""
        /\ arg.val = <<Path("Invalid"), "path is invalid">> =>
               ret.val = "path invalid error: \"path is invalid\""

C1_Witness ==
    /\ ret.op = "Display"
    /\ arg.val = <<Envvar("NotFound"), "\\\"">>
    /\ ret.val = "envvar not found error: \"\\\"\""

\* C2: the conversion from std::io::ErrorKind maps each of the fifteen named
\* platform kinds to the category the mapping table gives.
C2_MappingTable ==
    ret.op = "from" =>
        \A m \in Mapping : arg.val[1] = m[1] => ret.val = <<m[2], m[3]>>

C2_Witness ==
    /\ ret.op = "from"
    /\ arg.val[1] = "NotConnected"
    /\ ret.val = Connection("NotImplemented")

\* C3: the conversion is total: every platform kind can be converted and
\* yields a category; a kind that is not one of the fifteen named ones yields
\* Unknown, and no kind yields NoError.
C3_Total ==
    /\ (arg.fn = "from" /\ ret.op = "none") => ENABLED CallFrom
    /\ ret.op = "from" =>
           /\ ret.val \in CursedError
           /\ arg.val[1] \notin { m[1] : m \in Mapping } => ret.val = Unknown
           /\ ret.val # NoError

C3_Witness ==
    /\ ret.op = "from"
    /\ arg.val[1] = "BrokenPipe"
    /\ ret.val = Unknown

\* C4: to_string of a category with kind k is the lowercase variant name, one
\* space, and k.to_str(); Other(k) is k.to_str() alone; NoError is "no error"
\* and Unknown is "unknown".
C4_DomainWord ==
    ret.op = "to_string" =>
        LET c == arg.val IN
        CASE c = NoError     -> ret.val = "no error"
          [] c = Unknown     -> ret.val = "unknown"
          [] c[1] = "Other"  -> ret.val = to_str(c[2])
          [] OTHER           -> ret.val = Lower(c[1]) \o " " \o to_str(c[2])

C4_Witness ==
    /\ ret.op = "to_string"
    /\ arg.val = Other("AccessDenied")
    /\ ret.val = "access denied"

\* C5: to_str is defined on all fourteen kinds and returns the phrase of the
\* table; every phrase is lowercase words separated by single spaces, with no
\* punctuation.
C5_PhraseTable ==
    /\ Cardinality(CursedErrorType) = 14
    /\ { p[1] : p \in Phrases } = CursedErrorType
    /\ (arg.fn = "to_str" /\ ret.op = "none") => ENABLED CallToStr
    /\ ret.op = "to_str" =>
           /\ <<arg.val[1], ret.val>> \in Phrases
           /\ IsPhrase(ret.val)

C5_Witness ==
    /\ ret.op = "to_str"
    /\ arg.val[1] = "Timedout"
    /\ ret.val = "timed out"

\* C6, as stated: the Debug rendering of CursedErrorHandle::new(c, r)
\* contains c.to_string() and contains r itself, whatever characters r has.
C6_DebugContainsReason ==
    ret.op \in { "Debug", "DebugAlt" } =>
        /\ Contains(ret.val, to_string(arg.val[1]))
        /\ Contains(ret.val, arg.val[2])

\* C6, amended: the Debug rendering contains c.to_string() and contains r
\* between double quotes with its quote marks, backslashes and control
\* characters written as escape sequences; it contains r itself when r has
\* none of those characters.
C6_DebugContainsEscaped ==
    ret.op \in { "Debug", "DebugAlt" } =>
        /\ Contains(ret.val, to_string(arg.val[1]))
        /\ Contains(ret.val, "\"" \o EscapeFrom(arg.val[2], 1) \o "\"")
        /\ Chars(arg.val[2]) \cap Escaped = {} => Contains(ret.val, arg.val[2])

C6_Witness ==
    /\ ret.op = "Debug"
    /\ arg.val = <<File("NotFound"), "a\n">>
    /\ ret.val = "file not found(\"a\\n\")"
    /\ ~Contains(ret.val, arg.val[2])

\* C7: after new(c, r) and any sequence of get_error, get_reason, Display and
\* Debug calls, the handle's fields are c and r, get_error returns c and
\* get_reason returns r.
C7_FieldsKept ==
    /\ \A h \in DOMAIN handles :
           handles[h].error = args.error /\ handles[h].reason = args.reason
    /\ ret.op = "get_error" => ret.val = args.error
    /\ ret.op = "get_reason" => ret.val = args.reason

C7_Witness ==
    /\ ret.op = "get_reason"
    /\ ret.val = "path is invalid"
    /\ \A f \in Formats : shown[f] # <<>>

\* C8: every rendering in a format, of either handle built from the same
\* (category, reason) pair and after any other calls, is the string the first
\* rendering in that format produced.
C8_RenderingsAgree ==
    ret.op \in Formats => shown[ret.op] = <<ret.val>>

C8_Witness ==
    /\ ret.op = "Debug"
    /\ ret.again
    /\ DOMAIN handles = HandleIds
    /\ args.reason = "\""
    /\ shown["Display"] # <<>>

\* C9: the construction each documentation example makes names a category:
\* Argument(Invalid), like Path(Invalid), is a value of CursedError.
C9_DocExamplesConstruct ==
    ret.op = "variant" =>
        \A e \in DocExamples :
            arg.val = <<e.variant, e.err>> => ret.val \in CursedError

\* C10: to_string is injective: a category other than the one rendered,
\* prefixed, Other or sentinel, renders to another string.
C10_Injective ==
    ret.op = "to_string" =>
        \A d \in CursedError : d # arg.val => to_string(d) # ret.val

C10_Witness ==
    /\ ret.op = "to_string"
    /\ arg.val = Other("NotFound")
    /\ ret.val = "not found"
    /\ to_string(File("NotFound")) = "file not found"

====
